---- MODULE Spec2Model ----
(***************************************************************************)
(* Replica evaluation of k8shorizmetrics: the replica calculator, the      *)
(* per-metric-type evaluators and the multi-metric Evaluator.              *)
(*                                                                         *)
(* float64 quantities are modelled as exact rationals [n, d] with d > 0.   *)
(* Quantities (resource.Quantity) are modelled by their MilliValue().      *)
(* A nil pointer is the empty sequence <<>>, a set pointer is <<v>>.       *)
(***************************************************************************)
EXTENDS Integers, Sequences, FiniteSets, TLC

VARIABLES evaluator, gathered, call

vars == <<evaluator, gathered, call>>

(***************************************************************************)
(* Bounds of the model.                                                    *)
(***************************************************************************)
MaxValue == 2
MaxReplicas == 3
MaxMetrics == 3
MaxRatio == 5

PodNames == {"p1", "p2", "p3"}

(***************************************************************************)
(* Arithmetic helpers.                                                     *)
(***************************************************************************)
Abs(x) == IF x < 0 THEN -x ELSE x

\* Go integer division truncates toward zero (b # 0)
GoDiv(a, b) ==
    IF (a >= 0) = (b > 0) THEN Abs(a) \div Abs(b) ELSE -(Abs(a) \div Abs(b))

\* float64(a) / float64(b), b # 0, as an exact rational with positive denominator
Rat(a, b) == IF b < 0 THEN [n |-> -a, d |-> -b] ELSE [n |-> a, d |-> b]

RatLess(x, y) == x.n * y.d < y.n * x.d

RatLeq(x, y) == x.n * y.d <= y.n * x.d

One == [n |-> 1, d |-> 1]

\* math.Abs(1.0 - r)
AbsOneMinus(r) == [n |-> Abs(r.d - r.n), d |-> r.d]

\* int32(math.Ceil(r * float64(k)))
CeilTimes(r, k) == -((-(r.n * k)) \div r.d)

\* int32(math.Ceil(r))
Ceil(r) == CeilTimes(r, 1)

\* the tolerance k/4, exactly representable as a float64
Tol(k) == [n |-> k, d |-> 4]

Tolerances == {Tol(0), Tol(1), Tol(2)}

\* the tolerances an Evaluator is constructed with
ConstructedTolerances == {Tol(0), Tol(2)}

RECURSIVE SumOver(_, _)
SumOver(f, S) ==
    IF S = {} THEN 0
    ELSE LET p == CHOOSE q \in S : TRUE
         IN  f[p] + SumOver(f, S \ {p})

Some(v) == <<v>>
None == <<>>
IsSet(ptr) == ptr # <<>>
Deref(ptr) == ptr[1]

(***************************************************************************)
(* metricsclient: utilization ratios.                                      *)
(***************************************************************************)

\* the mutant of GetMetricUtilizationRatio that averages without truncation
GetMetricUtilizationRatioExact(metrics, targetUtilization) ==
    LET metricsTotal == SumOver(metrics, DOMAIN metrics)
        numEntries == Cardinality(DOMAIN metrics)
    IN  IF numEntries = 0
        THEN [panicked |-> TRUE, utilizationRatio |-> One, currentUtilization |-> 0]
        ELSE [panicked |-> FALSE,
              utilizationRatio |-> Rat(metricsTotal, targetUtilization * numEntries),
              currentUtilization |-> GoDiv(metricsTotal, numEntries)]

\* GetMetricUtilizationRatio: metricsTotal / int64(len(metrics)) is an integer
\* division, which panics when the mapping is empty.
GetMetricUtilizationRatio(metrics, targetUtilization) ==
    LET metricsTotal == SumOver(metrics, DOMAIN metrics)
        numEntries == Cardinality(DOMAIN metrics)
    IN  IF numEntries = 0
        THEN [panicked |-> TRUE, utilizationRatio |-> One, currentUtilization |-> 0]
        ELSE LET currentUtilization == GoDiv(metricsTotal, numEntries)
             IN  [panicked |-> FALSE,
                  utilizationRatio |-> Rat(currentUtilization, targetUtilization),
                  currentUtilization |-> currentUtilization]

\* the mutant of GetResourceUtilizationRatio that also sums the metrics of pods
\* without a request
GetResourceUtilizationRatioAllMetrics(metrics, requests, targetUtilization) ==
    LET matched == DOMAIN metrics \cap DOMAIN requests
        metricsTotal == SumOver(metrics, DOMAIN metrics)
        requestsTotal == SumOver(requests, matched)
        numEntries == Cardinality(DOMAIN metrics)
    IN  IF requestsTotal = 0
        THEN [err |-> "no metrics returned matched known pods",
              utilizationRatio |-> Rat(0, 1), currentUtilization |-> 0,
              rawAverageValue |-> 0]
        ELSE LET currentUtilization == GoDiv(metricsTotal * 100, requestsTotal)
             IN  [err |-> "nil",
                  utilizationRatio |-> Rat(currentUtilization, targetUtilization),
                  currentUtilization |-> currentUtilization,
                  rawAverageValue |-> GoDiv(metricsTotal, numEntries)]

\* GetResourceUtilizationRatio: only pods with a request are summed
GetResourceUtilizationRatio(metrics, requests, targetUtilization) ==
    LET matched == DOMAIN metrics \cap DOMAIN requests
        metricsTotal == SumOver(metrics, matched)
        requestsTotal == SumOver(requests, matched)
        numEntries == Cardinality(matched)
    IN  IF requestsTotal = 0
        THEN [err |-> "no metrics returned matched known pods",
              utilizationRatio |-> Rat(0, 1), currentUtilization |-> 0,
              rawAverageValue |-> 0]
        ELSE LET currentUtilization == GoDiv(metricsTotal * 100, requestsTotal)
             IN  [err |-> "nil",
                  utilizationRatio |-> Rat(currentUtilization, targetUtilization),
                  currentUtilization |-> currentUtilization,
                  rawAverageValue |-> GoDiv(metricsTotal, numEntries)]

(***************************************************************************)
(* replicas.ReplicaCalculator                                              *)
(***************************************************************************)

\* the mutant of WithinTolerance that excludes the edge of the band
WithinToleranceStrict(usageRatio, tolerance) ==
    RatLess(AbsOneMinus(usageRatio), tolerance)

\* the mutant of WithinTolerance that measures the ratio itself, not its
\* distance from 1.0
WithinToleranceOfZero(usageRatio, tolerance) ==
    RatLeq(Rat(Abs(usageRatio.n), usageRatio.d), tolerance)

\* math.Abs(1.0-usageRatio) <= tolerance
WithinTolerance(usageRatio, tolerance) == RatLeq(AbsOneMinus(usageRatio), tolerance)

\* the mutant of ScaleDirectionChanged that only guards a scale-up
ScaleDirectionChangedUpOnly(usageRatio, newUsageRatio) ==
    RatLess(One, usageRatio) /\ RatLess(newUsageRatio, One)

\* (usageRatio < 1.0 && newUsageRatio > 1.0) || (usageRatio > 1.0 && newUsageRatio < 1.0)
ScaleDirectionChanged(usageRatio, newUsageRatio) ==
    \/ RatLess(usageRatio, One) /\ RatLess(One, newUsageRatio)
    \/ RatLess(One, usageRatio) /\ RatLess(newUsageRatio, One)

\* the mutant of RebalanceIgnored that rebalances in every direction
RebalanceIgnoredAlways(ignoredPods, usageRatio) == ignoredPods # {}

\* len(ignoredPods) > 0 && usageRatio > 1.0
RebalanceIgnored(ignoredPods, usageRatio) ==
    ignoredPods # {} /\ RatLess(One, usageRatio)

\* the mutant of Synthesize that keeps only the entries it writes
SynthesizeReplacing(metrics, missingPods, missingValue, writeMissing, ignoredPods, rebalanceIgnored) ==
    LET written == (IF writeMissing THEN missingPods ELSE {})
                   \cup (IF rebalanceIgnored THEN ignoredPods ELSE {})
    IN  [p \in written |->
            IF rebalanceIgnored /\ p \in ignoredPods THEN 0 ELSE missingValue[p]]

\* the mutant of Synthesize that writes nothing for the ignored pods
SynthesizeMissingOnly(metrics, missingPods, missingValue, writeMissing, ignoredPods, rebalanceIgnored) ==
    LET written == IF writeMissing THEN missingPods ELSE {}
    IN  [p \in DOMAIN metrics \cup written |->
            IF writeMissing /\ p \in missingPods THEN missingValue[p] ELSE metrics[p]]

\* metrics[podName] = podmetrics.Metric{Value: ...} for the missing pods, then
\* for the ignored pods when rebalancing (the later write wins)
Synthesize(metrics, missingPods, missingValue, writeMissing, ignoredPods, rebalanceIgnored) ==
    LET written == (IF writeMissing THEN missingPods ELSE {})
                   \cup (IF rebalanceIgnored THEN ignoredPods ELSE {})
    IN  [p \in DOMAIN metrics \cup written |->
            IF rebalanceIgnored /\ p \in ignoredPods THEN 0
            ELSE IF writeMissing /\ p \in missingPods THEN missingValue[p]
            ELSE metrics[p]]

\* the mutant of GetUsageRatioReplicaCount without the scale-from-zero branch
GetUsageRatioReplicaCountNoZeroBranch(r, currentReplicas, usageRatio, readyPodCount) ==
    IF WithinTolerance(usageRatio, r.Tolerance)
    THEN currentReplicas
    ELSE CeilTimes(usageRatio, readyPodCount)

GetUsageRatioReplicaCount(r, currentReplicas, usageRatio, readyPodCount) ==
    IF currentReplicas # 0
    THEN IF WithinTolerance(usageRatio, r.Tolerance)
         THEN currentReplicas
         ELSE CeilTimes(usageRatio, readyPodCount)
    ELSE Ceil(usageRatio)

\* the mutant of PlainMissingPodValue with the two directions exchanged
PlainMissingPodValueSwapped(usageRatio, targetUtilization) ==
    IF RatLess(usageRatio, One) THEN 0 ELSE targetUtilization

\* the value GetPlainMetricReplicaCount writes for a missing pod: the target on
\* a scale-down, 0 otherwise
PlainMissingPodValue(usageRatio, targetUtilization) ==
    IF RatLess(usageRatio, One) THEN targetUtilization ELSE 0

\* the mutant of GetPlainMetricReplicaCount whose slow path multiplies by the
\* ready pods
GetPlainMetricReplicaCountTimesReadyPods(r, metrics, currentReplicas, targetUtilization, readyPodCount, missingPods, ignoredPods) ==
    LET first == GetMetricUtilizationRatio(metrics, targetUtilization)
        usageRatio == first.utilizationRatio
        rebalanceIgnored == RebalanceIgnored(ignoredPods, usageRatio)
        missingValue == [p \in missingPods |->
                            PlainMissingPodValue(usageRatio, targetUtilization)]
        synthesized == Synthesize(metrics, missingPods, missingValue, missingPods # {},
                                  ignoredPods, rebalanceIgnored)
        newUsageRatio == GetMetricUtilizationRatio(synthesized, targetUtilization).utilizationRatio
    IN  IF first.panicked
        THEN [panicked |-> TRUE, count |-> 0, metrics |-> metrics]
        ELSE IF ~rebalanceIgnored /\ missingPods = {}
        THEN [panicked |-> FALSE,
              count |-> IF WithinTolerance(usageRatio, r.Tolerance)
                        THEN currentReplicas
                        ELSE CeilTimes(usageRatio, readyPodCount),
              metrics |-> metrics]
        ELSE [panicked |-> FALSE,
              count |-> IF \/ WithinTolerance(newUsageRatio, r.Tolerance)
                           \/ ScaleDirectionChanged(usageRatio, newUsageRatio)
                        THEN currentReplicas
                        ELSE CeilTimes(newUsageRatio, readyPodCount),
              metrics |-> synthesized]

GetPlainMetricReplicaCount(r, metrics, currentReplicas, targetUtilization, readyPodCount, missingPods, ignoredPods) ==
    LET first == GetMetricUtilizationRatio(metrics, targetUtilization)
        usageRatio == first.utilizationRatio
        rebalanceIgnored == RebalanceIgnored(ignoredPods, usageRatio)
        missingValue == [p \in missingPods |->
                            PlainMissingPodValue(usageRatio, targetUtilization)]
        synthesized == Synthesize(metrics, missingPods, missingValue, missingPods # {},
                                  ignoredPods, rebalanceIgnored)
        newUsageRatio == GetMetricUtilizationRatio(synthesized, targetUtilization).utilizationRatio
    IN  IF first.panicked
        THEN [panicked |-> TRUE, count |-> 0, metrics |-> metrics]
        ELSE IF ~rebalanceIgnored /\ missingPods = {}
        THEN [panicked |-> FALSE,
              count |-> IF WithinTolerance(usageRatio, r.Tolerance)
                        THEN currentReplicas
                        ELSE CeilTimes(usageRatio, readyPodCount),
              metrics |-> metrics]
        ELSE [panicked |-> FALSE,
              count |-> IF \/ WithinTolerance(newUsageRatio, r.Tolerance)
                           \/ ScaleDirectionChanged(usageRatio, newUsageRatio)
                        THEN currentReplicas
                        ELSE CeilTimes(newUsageRatio, Cardinality(DOMAIN synthesized)),
              metrics |-> synthesized]

(***************************************************************************)
(* Per-metric-type evaluators.  A gathered metric is a record              *)
(*   [Type, Target, PodMetricsInfo, Requests, ReadyPodCount, MissingPods,  *)
(*    IgnoredPods, Current]                                                *)
(* holding metrics.Metric.Spec (Type, Target) and the payload of the type. *)
(* An evaluation returns [panicked, count, err, metric], where metric is   *)
(* the gathered metric as the call leaves it.                              *)
(***************************************************************************)
Returns(count, err, metric) ==
    [panicked |-> FALSE, count |-> count, err |-> err, metric |-> metric]

Panics(metric) ==
    [panicked |-> TRUE, count |-> 0, err |-> "nil", metric |-> metric]

\* the result of a GetPlainMetricReplicaCount call on the metric's payload
PlainMetricEvaluation(r, currentReplicas, gatheredMetric, targetUtilization) ==
    LET res == GetPlainMetricReplicaCount(r, gatheredMetric.PodMetricsInfo, currentReplicas,
                   targetUtilization, gatheredMetric.ReadyPodCount,
                   gatheredMetric.MissingPods, gatheredMetric.IgnoredPods)
        after == [gatheredMetric EXCEPT !.PodMetricsInfo = res.metrics]
    IN  IF res.panicked THEN Panics(after) ELSE Returns(res.count, "nil", after)

\* the mutant of MissingPodValue with the two directions exchanged
MissingPodValueSwapped(usageRatio, request) ==
    IF RatLess(usageRatio, One) THEN 0 ELSE request

\* the value resource.Evaluate.Evaluate writes for a missing pod: its whole
\* request on a scale-down, nothing on a scale-up
MissingPodValue(usageRatio, request) ==
    IF RatLess(usageRatio, One) THEN request ELSE 0

\* resource.Evaluate.Evaluate, the AverageUtilization branch
ResourceUtilizationEvaluation(currentReplicas, gatheredMetric, tolerance) ==
    LET metrics == gatheredMetric.PodMetricsInfo
        requests == gatheredMetric.Requests
        targetUtilization == Deref(gatheredMetric.Target.AverageUtilization)
        ignoredPods == gatheredMetric.IgnoredPods
        missingPods == gatheredMetric.MissingPods
        readyPodCount == gatheredMetric.ReadyPodCount
        first == GetResourceUtilizationRatio(metrics, requests, targetUtilization)
        usageRatio == first.utilizationRatio
        rebalanceIgnored == RebalanceIgnored(ignoredPods, usageRatio)
        \* requests[podName] of a pod without a request is the zero value
        missingValue == [p \in missingPods |->
                            MissingPodValue(usageRatio,
                                IF p \in DOMAIN requests THEN requests[p] ELSE 0)]
        writeMissing == missingPods # {}
                        /\ (RatLess(usageRatio, One) \/ RatLess(One, usageRatio))
        synthesized == Synthesize(metrics, missingPods, missingValue, writeMissing,
                                  ignoredPods, rebalanceIgnored)
        after == [gatheredMetric EXCEPT !.PodMetricsInfo = synthesized]
        second == GetResourceUtilizationRatio(synthesized, requests, targetUtilization)
        newUsageRatio == second.utilizationRatio
    IN  IF first.err # "nil"
        THEN Returns(0, first.err, gatheredMetric)
        ELSE IF ~rebalanceIgnored /\ missingPods = {}
        THEN Returns(IF WithinTolerance(usageRatio, tolerance)
                     THEN currentReplicas
                     ELSE CeilTimes(usageRatio, readyPodCount),
                     "nil", gatheredMetric)
        ELSE IF second.err # "nil"
        THEN Returns(0, second.err, after)
        ELSE Returns(IF \/ WithinTolerance(newUsageRatio, tolerance)
                        \/ ScaleDirectionChanged(usageRatio, newUsageRatio)
                     THEN currentReplicas
                     ELSE CeilTimes(newUsageRatio, Cardinality(DOMAIN synthesized)),
                     "nil", after)

\* resource.Evaluate.Evaluate; e is the resource evaluator [Calculater]
ResourceEvaluate(e, currentReplicas, gatheredMetric, tolerance) ==
    IF IsSet(gatheredMetric.Target.AverageValue)
    THEN PlainMetricEvaluation(e.Calculater, currentReplicas, gatheredMetric,
                               Deref(gatheredMetric.Target.AverageValue))
    ELSE IF IsSet(gatheredMetric.Target.AverageUtilization)
    THEN ResourceUtilizationEvaluation(currentReplicas, gatheredMetric, tolerance)
    ELSE Returns(0, "invalid resource metric source: neither a utilization target nor a value target was set",
                 gatheredMetric)

\* pods.Evaluate.Evaluate: Target.AverageValue is dereferenced unchecked
PodsEvaluate(e, currentReplicas, gatheredMetric) ==
    IF ~IsSet(gatheredMetric.Target.AverageValue)
    THEN Panics(gatheredMetric)
    ELSE PlainMetricEvaluation(e.Calculater, currentReplicas, gatheredMetric,
                               Deref(gatheredMetric.Target.AverageValue))

\* the per-pod target without the tolerance check
PerPodTargetReplicasNoBand(currentReplicas, utilization, targetPerPod, tolerance) ==
    IF currentReplicas = 0 /\ utilization = 0
    THEN currentReplicas
    ELSE Ceil(Rat(utilization, targetPerPod))

\* the inline tolerance check of the object and external evaluators:
\*   usageRatio := utilization / (target * float64(replicaCount))
\*   if math.Abs(1.0-usageRatio) > tolerance { replicaCount = ceil(utilization / target) }
\* With currentReplicas = 0 the division is by zero: +Inf or -Inf is beyond every
\* tolerance, NaN (utilization = 0) compares false and keeps replicaCount = 0.
PerPodTargetReplicas(currentReplicas, utilization, targetPerPod, tolerance) ==
    IF currentReplicas = 0
    THEN (IF utilization = 0 THEN currentReplicas ELSE Ceil(Rat(utilization, targetPerPod)))
    ELSE IF WithinTolerance(Rat(utilization, targetPerPod * currentReplicas), tolerance)
    THEN currentReplicas
    ELSE Ceil(Rat(utilization, targetPerPod))

\* the mutant of ObjectEvaluate that hands both target kinds to the calculator
ObjectEvaluateViaCalculator(e, currentReplicas, gatheredMetric, tolerance) ==
    LET perPod == gatheredMetric.Target.Type = "AverageValue"
        current == IF perPod THEN gatheredMetric.Current.AverageValue
                   ELSE gatheredMetric.Current.Value
        target == IF perPod THEN gatheredMetric.Target.AverageValue
                  ELSE gatheredMetric.Target.Value
    IN  IF gatheredMetric.Target.Type \notin {"Value", "AverageValue"}
        THEN Returns(0, "invalid object metric source: neither a value target nor an average value target was set",
                     gatheredMetric)
        ELSE IF ~IsSet(current) \/ ~IsSet(target)
        THEN Panics(gatheredMetric)
        ELSE Returns(GetUsageRatioReplicaCount(e.Calculater, currentReplicas,
                         Rat(Deref(current), Deref(target)), gatheredMetric.ReadyPodCount),
                     "nil", gatheredMetric)

\* object.Evaluate.Evaluate
ObjectEvaluate(e, currentReplicas, gatheredMetric, tolerance) ==
    IF gatheredMetric.Target.Type = "Value"
    THEN IF ~IsSet(gatheredMetric.Current.Value) \/ ~IsSet(gatheredMetric.Target.Value)
         THEN Panics(gatheredMetric)
         ELSE Returns(GetUsageRatioReplicaCount(e.Calculater, currentReplicas,
                          Rat(Deref(gatheredMetric.Current.Value),
                              Deref(gatheredMetric.Target.Value)),
                          gatheredMetric.ReadyPodCount),
                      "nil", gatheredMetric)
    ELSE IF gatheredMetric.Target.Type = "AverageValue"
    THEN IF ~IsSet(gatheredMetric.Current.AverageValue) \/ ~IsSet(gatheredMetric.Target.AverageValue)
         THEN Panics(gatheredMetric)
         ELSE Returns(PerPodTargetReplicas(currentReplicas,
                          Deref(gatheredMetric.Current.AverageValue),
                          Deref(gatheredMetric.Target.AverageValue), tolerance),
                      "nil", gatheredMetric)
    ELSE Returns(0, "invalid object metric source: neither a value target nor an average value target was set",
                 gatheredMetric)

\* the mutant of ExternalEvaluate that multiplies by the current replicas where
\* the external metric reports its ready pods
ExternalEvaluateOnCurrentReplicas(e, currentReplicas, gatheredMetric, tolerance) ==
    IF IsSet(gatheredMetric.Target.AverageValue)
    THEN IF ~IsSet(gatheredMetric.Current.AverageValue)
         THEN Panics(gatheredMetric)
         ELSE Returns(PerPodTargetReplicas(currentReplicas,
                          Deref(gatheredMetric.Current.AverageValue),
                          Deref(gatheredMetric.Target.AverageValue), tolerance),
                      "nil", gatheredMetric)
    ELSE IF IsSet(gatheredMetric.Target.Value)
    THEN IF ~IsSet(gatheredMetric.Current.Value)
         THEN Panics(gatheredMetric)
         ELSE Returns(GetUsageRatioReplicaCount(e.Calculater, currentReplicas,
                          Rat(Deref(gatheredMetric.Current.Value),
                              Deref(gatheredMetric.Target.Value)),
                          currentReplicas),
                      "nil", gatheredMetric)
    ELSE Returns(0, "invalid external metric source: neither a value target nor an average value target was set",
                 gatheredMetric)

\* external.Evaluate.Evaluate
ExternalEvaluate(e, currentReplicas, gatheredMetric, tolerance) ==
    IF IsSet(gatheredMetric.Target.AverageValue)
    THEN IF ~IsSet(gatheredMetric.Current.AverageValue)
         THEN Panics(gatheredMetric)
         ELSE Returns(PerPodTargetReplicas(currentReplicas,
                          Deref(gatheredMetric.Current.AverageValue),
                          Deref(gatheredMetric.Target.AverageValue), tolerance),
                      "nil", gatheredMetric)
    ELSE IF IsSet(gatheredMetric.Target.Value)
    THEN IF ~IsSet(gatheredMetric.Current.Value)
         THEN Panics(gatheredMetric)
         ELSE Returns(GetUsageRatioReplicaCount(e.Calculater, currentReplicas,
                          Rat(Deref(gatheredMetric.Current.Value),
                              Deref(gatheredMetric.Target.Value)),
                          gatheredMetric.ReadyPodCount),
                      "nil", gatheredMetric)
    ELSE Returns(0, "invalid external metric source: neither a value target nor an average value target was set",
                 gatheredMetric)

(***************************************************************************)
(* k8shorizmetrics.Evaluator                                               *)
(***************************************************************************)

\* NewEvaluator: one calculator shared by the four evaluators; the Tolerance
\* member of the Evaluator is left at its zero value
NewEvaluator(tolerance) ==
    LET calculate == [Tolerance |-> tolerance]
    IN  [External |-> [Calculater |-> calculate],
         Object |-> [Calculater |-> calculate],
         Pods |-> [Calculater |-> calculate],
         Resource |-> [Calculater |-> calculate],
         Tolerance |-> Tol(0)]

\* the mutant of EvaluateSingleMetricWithOptions that sends container resource
\* metrics to the resource evaluator
EvaluateSingleMetricWithOptionsContainerAsResource(e, gatheredMetric, currentReplicas, tolerance) ==
    CASE gatheredMetric.Type = "Object" ->
            ObjectEvaluate(e.Object, currentReplicas, gatheredMetric, tolerance)
      [] gatheredMetric.Type = "Pods" ->
            PodsEvaluate(e.Pods, currentReplicas, gatheredMetric)
      [] gatheredMetric.Type \in {"Resource", "ContainerResource"} ->
            ResourceEvaluate(e.Resource, currentReplicas, gatheredMetric, tolerance)
      [] gatheredMetric.Type = "External" ->
            ExternalEvaluate(e.External, currentReplicas, gatheredMetric, tolerance)
      [] OTHER -> Returns(0, "unknown metric source type", gatheredMetric)

EvaluateSingleMetricWithOptions(e, gatheredMetric, currentReplicas, tolerance) ==
    CASE gatheredMetric.Type = "Object" ->
            ObjectEvaluate(e.Object, currentReplicas, gatheredMetric, tolerance)
      [] gatheredMetric.Type = "Pods" ->
            PodsEvaluate(e.Pods, currentReplicas, gatheredMetric)
      [] gatheredMetric.Type = "Resource" ->
            ResourceEvaluate(e.Resource, currentReplicas, gatheredMetric, tolerance)
      [] gatheredMetric.Type = "External" ->
            ExternalEvaluate(e.External, currentReplicas, gatheredMetric, tolerance)
      [] OTHER -> Returns(0, "unknown metric source type", gatheredMetric)

EvaluateSingleMetric(e, gatheredMetric, currentReplicas) ==
    EvaluateSingleMetricWithOptions(e, gatheredMetric, currentReplicas, e.Tolerance)

\* the body of the loop of EvaluateWithOptions after the evaluation res of
\* gatheredMetrics[i] (1-based; Go's i is i - 1), with
\* acc = [panicked, evaluation, evaluationErrors, gatheredMetrics, evaluated]
Accumulate(i, acc, res) ==
    LET visited == [acc EXCEPT !.gatheredMetrics = [@ EXCEPT ![i] = res.metric],
                               !.evaluated = Append(@, i)]
        seeded == IF i = 1 THEN res.count ELSE acc.evaluation
    IN  IF res.panicked
        THEN [visited EXCEPT !.panicked = TRUE]
        ELSE IF res.err # "nil"
        THEN [visited EXCEPT !.evaluationErrors = Append(@, res.err)]
        ELSE [visited EXCEPT !.evaluation = IF res.count > seeded THEN res.count ELSE seeded]

\* one iteration of the loop of EvaluateWithOptions, on gatheredMetrics[i]
EvaluateStep(e, i, acc, currentReplicas, tolerance) ==
    Accumulate(i, acc, EvaluateSingleMetricWithOptions(e, acc.gatheredMetrics[i],
                                                       currentReplicas, tolerance))

\* the mutant of EvaluateLoop that returns at the first error
RECURSIVE EvaluateLoopStopAtError(_, _, _, _, _)
EvaluateLoopStopAtError(e, i, acc, currentReplicas, tolerance) ==
    IF i > Len(acc.gatheredMetrics) \/ acc.panicked \/ Len(acc.evaluationErrors) > 0
    THEN acc
    ELSE EvaluateLoopStopAtError(e, i + 1,
             EvaluateStep(e, i, acc, currentReplicas, tolerance), currentReplicas, tolerance)

\* for i, gatheredMetric := range gatheredMetrics { ... }: the iterations from i on
RECURSIVE EvaluateLoop(_, _, _, _, _)
EvaluateLoop(e, i, acc, currentReplicas, tolerance) ==
    IF i > Len(acc.gatheredMetrics) \/ acc.panicked
    THEN acc
    ELSE EvaluateLoop(e, i + 1, EvaluateStep(e, i, acc, currentReplicas, tolerance),
                      currentReplicas, tolerance)

\* the mutant of MultiMetricResult that reports every failure as partial
MultiMetricResultAlwaysPartial(evaluation, evaluationErrors, numMetrics) ==
    IF Len(evaluationErrors) > 0
    THEN [count |-> evaluation, err |-> "EvaluatorMultiMetricError",
          Partial |-> TRUE, Errors |-> evaluationErrors]
    ELSE [count |-> evaluation, err |-> "nil", Partial |-> FALSE, Errors |-> <<>>]

\* what EvaluateWithOptions returns after the loop
MultiMetricResult(evaluation, evaluationErrors, numMetrics) ==
    IF Len(evaluationErrors) > 0
    THEN LET partial == Len(evaluationErrors) < numMetrics
         IN  IF partial
             THEN [count |-> evaluation, err |-> "EvaluatorMultiMetricError",
                   Partial |-> partial, Errors |-> evaluationErrors]
             ELSE [count |-> 0, err |-> "EvaluatorMultiMetricError",
                   Partial |-> partial, Errors |-> evaluationErrors]
    ELSE [count |-> evaluation, err |-> "nil", Partial |-> FALSE, Errors |-> <<>>]

\* what EvaluateWithOptions returns, from the accumulator the loop ended with:
\* [panicked, count, err, Partial, Errors, gatheredMetrics, evaluated];
\* err = "nil" or "EvaluatorMultiMetricError"
MultiMetricReturn(acc, ret) ==
    IF acc.panicked
    THEN [panicked |-> TRUE, count |-> 0, err |-> "nil", Partial |-> FALSE,
          Errors |-> <<>>, gatheredMetrics |-> acc.gatheredMetrics,
          evaluated |-> acc.evaluated]
    ELSE [panicked |-> FALSE, count |-> ret.count, err |-> ret.err,
          Partial |-> ret.Partial, Errors |-> ret.Errors,
          gatheredMetrics |-> acc.gatheredMetrics, evaluated |-> acc.evaluated]

MultiMetricOutcome(acc) ==
    MultiMetricReturn(acc, MultiMetricResult(acc.evaluation, acc.evaluationErrors,
                                             Len(acc.gatheredMetrics)))

EvaluateWithOptions(e, gatheredMetrics, currentReplicas, tolerance) ==
    MultiMetricOutcome(EvaluateLoop(e, 1,
        [panicked |-> FALSE, evaluation |-> 0, evaluationErrors |-> <<>>,
         gatheredMetrics |-> gatheredMetrics, evaluated |-> <<>>],
        currentReplicas, tolerance))

Evaluate(e, gatheredMetrics, currentReplicas) ==
    EvaluateWithOptions(e, gatheredMetrics, currentReplicas, e.Tolerance)

(***************************************************************************)
(* Inputs.  Each pod of PodNames is given a status; the payload of a       *)
(* gathered metric is built from the statuses.  Pods are interchangeable,  *)
(* so only assignments with non-decreasing rank are enumerated.            *)
(***************************************************************************)
EmptyMap == [p \in {} |-> 0]

NoTarget == [Type |-> "", Value |-> None, AverageValue |-> None, AverageUtilization |-> None]

ValueTarget(v) == [NoTarget EXCEPT !.Type = "Value", !.Value = Some(v)]

AverageValueTarget(v) == [NoTarget EXCEPT !.Type = "AverageValue", !.AverageValue = Some(v)]

UtilizationTarget(v) == [NoTarget EXCEPT !.Type = "Utilization", !.AverageUtilization = Some(v)]

NoCurrent == [Value |-> None, AverageValue |-> None]

Status(kind, value, request) == [kind |-> kind, value |-> value, request |-> request]

KindRank(kind) ==
    CASE kind = "absent" -> 0
      [] kind = "missing" -> 1
      [] kind = "ignored" -> 2
      [] kind = "extraneous" -> 3
      [] kind = "reported" -> 4

Rank(st) == KindRank(st.kind) * 1000 + (st.value + 10) * 10 + st.request

Canonical(a) == Rank(a["p1"]) <= Rank(a["p2"]) /\ Rank(a["p2"]) <= Rank(a["p3"])

\* pods metrics: custom metric values may be negative; no requests, no ignored pods
PodsStatuses ==
    {Status("absent", 0, 0), Status("missing", 0, 0)}
    \cup {Status("reported", v, 0) : v \in -1..MaxValue}

\* raw resource metrics (GatherRaw): usage values, no requests
RawResourceStatuses ==
    {Status("absent", 0, 0), Status("missing", 0, 0), Status("ignored", 0, 0)}
    \cup {Status("reported", v, 0) : v \in 0..MaxValue}

\* resource metrics (Gather): every listed pod has a request; a metric of a pod
\* that is not listed is extraneous
ResourceStatuses ==
    {Status("absent", 0, 0), Status("extraneous", MaxValue, 0),
     Status("missing", 0, 2), Status("ignored", 0, 1)}
    \cup {Status("reported", v, q) : v \in 0..MaxValue, q \in 1..2}

Assignments(statuses) == {a \in [PodNames -> statuses] : Canonical(a)}

PodsWith(a, kinds) == {p \in PodNames : a[p].kind \in kinds}

Payload(type, target, a, readyPodCount, withRequests) ==
    [Type |-> type,
     Target |-> target,
     PodMetricsInfo |-> [p \in PodsWith(a, {"reported", "extraneous"}) |-> a[p].value],
     Requests |-> IF withRequests
                  THEN [p \in PodsWith(a, {"reported", "missing", "ignored"}) |-> a[p].request]
                  ELSE EmptyMap,
     ReadyPodCount |-> readyPodCount,
     MissingPods |-> PodsWith(a, {"missing"}),
     IgnoredPods |-> PodsWith(a, {"ignored"}),
     Current |-> NoCurrent]

\* the ready pods are listed pods that reported a metric: all of them, or all but one
ReadyCounts(a) ==
    LET n == Cardinality(PodsWith(a, {"reported"}))
    IN  {n} \cup (IF n > 0 THEN {n - 1} ELSE {})

PodsMetrics ==
    UNION {{Payload("Pods", AverageValueTarget(t), a, n, FALSE) :
                t \in 1..2, n \in ReadyCounts(a)} : a \in Assignments(PodsStatuses)}

RawResourceMetrics ==
    UNION {{Payload("Resource", AverageValueTarget(t), a, n, FALSE) :
                t \in 1..2, n \in ReadyCounts(a)} : a \in Assignments(RawResourceStatuses)}

ResourceMetrics ==
    UNION {{Payload("Resource", UtilizationTarget(t), a, n, TRUE) :
                t \in {50, 100}, n \in ReadyCounts(a)} : a \in Assignments(ResourceStatuses)}

ValueMetric(type, target, current, readyPodCount) ==
    [Type |-> type, Target |-> target, PodMetricsInfo |-> EmptyMap, Requests |-> EmptyMap,
     ReadyPodCount |-> readyPodCount, MissingPods |-> {}, IgnoredPods |-> {},
     Current |-> current]

ValueMetrics ==
    {ValueMetric(type, ValueTarget(t), [NoCurrent EXCEPT !.Value = Some(c)], n) :
        type \in {"Object", "External"}, t \in 1..2, c \in 0..MaxRatio, n \in 0..MaxReplicas}
    \cup
    {ValueMetric(type, AverageValueTarget(t), [NoCurrent EXCEPT !.AverageValue = Some(c)], 0) :
        type \in {"Object", "External"}, t \in 1..2, c \in 0..MaxRatio}

\* specs without a recognised target, and a type that is none of the four
InvalidMetrics ==
    {ValueMetric(type, NoTarget, NoCurrent, 0) :
        type \in {"Object", "External", "Resource", "Pods", "ContainerResource"}}

SingleMetrics ==
    PodsMetrics \cup RawResourceMetrics \cup ResourceMetrics \cup ValueMetrics \cup InvalidMetrics

Assign(s1, s2, s3) ==
    [p \in PodNames |-> CASE p = "p1" -> s1 [] p = "p2" -> s2 [] OTHER -> s3]

Absent == Status("absent", 0, 0)

\* the metrics of the multi-metric lists: two that fail to evaluate with different
\* errors, one whose evaluation panics, and four that succeed
MultiMetrics ==
    {ValueMetric("ContainerResource", NoTarget, NoCurrent, 0),
     ValueMetric("Resource", NoTarget, NoCurrent, 0),
     Payload("Pods", AverageValueTarget(1),
             Assign(Absent, Absent, Status("reported", 2, 0)), 1, FALSE),
     Payload("Pods", AverageValueTarget(1),
             Assign(Absent, Absent, Status("reported", -1, 0)), 2, FALSE),
     Payload("Pods", AverageValueTarget(1), Assign(Absent, Absent, Absent), 0, FALSE),
     ValueMetric("Object", AverageValueTarget(1), [NoCurrent EXCEPT !.AverageValue = Some(3)], 0),
     Payload("Resource", UtilizationTarget(100),
             Assign(Absent, Status("missing", 0, 2), Status("reported", 2, 1)), 1, TRUE)}

RECURSIVE ListsUpTo(_, _)
ListsUpTo(S, n) ==
    IF n = 0 THEN {<<>>}
    ELSE LET shorter == ListsUpTo(S, n - 1)
         IN  shorter \cup {Append(l, x) : l \in shorter, x \in S}

Ratios == {Rat(n, d) : n \in 0..MaxRatio, d \in {1, 2, 4}}

(***************************************************************************)
(* State: the Evaluator, the gathered metrics the caller holds (the        *)
(* evaluation writes into their PodMetricsInfo), and the last call with    *)
(* its arguments and what it returned.  A caller makes a call with any     *)
(* arguments and may then repeat it with the same arguments; a panic ends  *)
(* the behaviour.                                                          *)
(***************************************************************************)
NoCall ==
    [op |-> "none", index |-> 0, currentReplicas |-> 0, tolerance |-> Tol(0),
     usageRatio |-> One, readyPodCount |-> 0, before |-> <<>>,
     panicked |-> FALSE, count |-> 0, err |-> "nil", Partial |-> FALSE,
     Errors |-> <<>>, evaluated |-> <<>>]

Init ==
    /\ evaluator \in {NewEvaluator(t) : t \in ConstructedTolerances}
    /\ gathered \in ListsUpTo(MultiMetrics, MaxMetrics)
    /\ call = NoCall

InitSingle ==
    /\ evaluator \in {NewEvaluator(t) : t \in ConstructedTolerances}
    /\ gathered \in {<<m>> : m \in SingleMetrics}
    /\ call = NoCall

InitPlain ==
    /\ evaluator \in {NewEvaluator(t) : t \in Tolerances}
    /\ gathered \in {<<m>> : m \in RawResourceMetrics \cup PodsMetrics}
    /\ call = NoCall

InitRatio ==
    /\ evaluator \in {NewEvaluator(t) : t \in Tolerances}
    /\ gathered = <<>>
    /\ call = NoCall

FirstOrRepeated(op, i, currentReplicas, tolerance, usageRatio, readyPodCount) ==
    \/ call.op = "none"
    \/ /\ ~call.panicked
       /\ call.op = op
       /\ call.index = i
       /\ call.currentReplicas = currentReplicas
       /\ call.tolerance = tolerance
       /\ call.usageRatio = usageRatio
       /\ call.readyPodCount = readyPodCount

MultiCall(op, currentReplicas, tolerance, res) ==
    [NoCall EXCEPT !.op = op, !.currentReplicas = currentReplicas,
                   !.tolerance = tolerance, !.before = gathered,
                   !.panicked = res.panicked, !.count = res.count, !.err = res.err,
                   !.Partial = res.Partial, !.Errors = res.Errors,
                   !.evaluated = res.evaluated]

\* the call returns res: the metrics are left as the call wrote them
MultiReturn(op, currentReplicas, tolerance, res) ==
    /\ gathered' = res.gatheredMetrics
    /\ call' = MultiCall(op, currentReplicas, tolerance, res)

SingleCall(op, i, currentReplicas, tolerance, res) ==
    [NoCall EXCEPT !.op = op, !.index = i, !.currentReplicas = currentReplicas,
                   !.tolerance = tolerance, !.before = gathered,
                   !.panicked = res.panicked, !.count = res.count, !.err = res.err]

CallEvaluate ==
    \E currentReplicas \in 0..MaxReplicas :
        /\ FirstOrRepeated("Evaluate", 0, currentReplicas, evaluator.Tolerance, One, 0)
        /\ MultiReturn("Evaluate", currentReplicas, evaluator.Tolerance,
                       Evaluate(evaluator, gathered, currentReplicas))
        /\ UNCHANGED evaluator

CallEvaluateWithOptions ==
    \E currentReplicas \in 0..MaxReplicas, tolerance \in Tolerances :
        /\ FirstOrRepeated("EvaluateWithOptions", 0, currentReplicas, tolerance, One, 0)
        /\ MultiReturn("EvaluateWithOptions", currentReplicas, tolerance,
                       EvaluateWithOptions(evaluator, gathered, currentReplicas, tolerance))
        /\ UNCHANGED evaluator

CallEvaluateSingleMetric ==
    \E i \in 1..Len(gathered), currentReplicas \in 0..MaxReplicas :
        /\ FirstOrRepeated("EvaluateSingleMetric", i, currentReplicas,
                           evaluator.Tolerance, One, 0)
        /\ LET res == EvaluateSingleMetric(evaluator, gathered[i], currentReplicas)
           IN  /\ gathered' = [gathered EXCEPT ![i] = res.metric]
               /\ call' = SingleCall("EvaluateSingleMetric", i, currentReplicas,
                                     evaluator.Tolerance, res)
        /\ UNCHANGED evaluator

CallEvaluateSingleMetricWithOptions ==
    \E i \in 1..Len(gathered), currentReplicas \in 0..MaxReplicas, tolerance \in Tolerances :
        /\ FirstOrRepeated("EvaluateSingleMetricWithOptions", i, currentReplicas,
                           tolerance, One, 0)
        /\ LET res == EvaluateSingleMetricWithOptions(evaluator, gathered[i],
                                                      currentReplicas, tolerance)
           IN  /\ gathered' = [gathered EXCEPT ![i] = res.metric]
               /\ call' = SingleCall("EvaluateSingleMetricWithOptions", i,
                                     currentReplicas, tolerance, res)
        /\ UNCHANGED evaluator

\* a direct call of the shared calculator with a usage ratio
CallGetUsageRatioReplicaCount ==
    \E currentReplicas \in 0..MaxReplicas, usageRatio \in Ratios,
       readyPodCount \in 0..MaxReplicas :
        LET r == evaluator.Pods.Calculater
        IN  /\ FirstOrRepeated("GetUsageRatioReplicaCount", 0, currentReplicas,
                               r.Tolerance, usageRatio, readyPodCount)
            /\ call' = [NoCall EXCEPT
                           !.op = "GetUsageRatioReplicaCount",
                           !.currentReplicas = currentReplicas,
                           !.tolerance = r.Tolerance,
                           !.usageRatio = usageRatio,
                           !.readyPodCount = readyPodCount,
                           !.before = gathered,
                           !.count = GetUsageRatioReplicaCount(r, currentReplicas,
                                                               usageRatio, readyPodCount)]
            /\ UNCHANGED <<evaluator, gathered>>

\* a direct call of the shared calculator on the payload of gathered[1]
CallGetPlainMetricReplicaCount ==
    \E currentReplicas \in 0..MaxReplicas, readyPodCount \in 0..MaxReplicas :
        LET r == evaluator.Pods.Calculater
            m == gathered[1]
            res == GetPlainMetricReplicaCount(r, m.PodMetricsInfo, currentReplicas,
                       Deref(m.Target.AverageValue), readyPodCount,
                       m.MissingPods, m.IgnoredPods)
        IN  /\ FirstOrRepeated("GetPlainMetricReplicaCount", 1, currentReplicas,
                               r.Tolerance, One, readyPodCount)
            /\ gathered' = <<[m EXCEPT !.PodMetricsInfo = res.metrics]>>
            /\ call' = [NoCall EXCEPT
                           !.op = "GetPlainMetricReplicaCount",
                           !.index = 1,
                           !.currentReplicas = currentReplicas,
                           !.tolerance = r.Tolerance,
                           !.readyPodCount = readyPodCount,
                           !.before = gathered,
                           !.panicked = res.panicked,
                           !.count = res.count]
            /\ UNCHANGED evaluator

Next == CallEvaluate \/ CallEvaluateWithOptions

NextSingle == CallEvaluateSingleMetric \/ CallEvaluateSingleMetricWithOptions

NextPlain == CallGetPlainMetricReplicaCount

NextRatio == CallGetUsageRatioReplicaCount

\* a caller that makes either kind of call, on a list or on a single metric
InitEvaluator == Init \/ InitSingle

NextEvaluator == Next \/ NextSingle

Spec == Init /\ [][Next]_vars

SpecEvaluator == InitEvaluator /\ [][NextEvaluator]_vars

SpecSingle == InitSingle /\ [][NextSingle]_vars

SpecPlain == InitPlain /\ [][NextPlain]_vars

SpecRatio == InitRatio /\ [][NextRatio]_vars

(***************************************************************************)
(* Gathering.  A metric spec is reduced to what the Gatherer switches on:  *)
(* its type and its target type.  The label selector of the spec converts  *)
(* or not, and the collaborator that is asked for the metric (the metrics  *)
(* client and the pod lister behind the per-type gatherers) answers or     *)
(* fails: both are inputs of the call.  A gathered metric carries its spec *)
(* and the collaborator call that produced its payload.                    *)
(***************************************************************************)

GatherInput(type, targetType, selector, collaborator) ==
    [Spec |-> [Type |-> type, Target |-> [Type |-> targetType]],
     selector |-> selector, collaborator |-> collaborator]

\* the collaborator c[from] is asked for the metric of the spec
Gathered(in, from, failure) ==
    IF in.collaborator = "error"
    THEN [err |-> failure, metric |-> <<>>]
    ELSE [err |-> "nil", metric |-> <<[Spec |-> in.Spec, from |-> from]>>]

Refused(err) == [err |-> err, metric |-> <<>>]

\* Gatherer.GatherSingleMetricWithOptions; a nil *metrics.Metric is <<>>
GatherSingleMetricWithOptions(in) ==
    LET spec == in.Spec
    IN  CASE spec.Type = "Object" ->
                 IF in.selector = "invalid"
                 THEN Refused("failed to get object metric")
                 ELSE CASE spec.Target.Type = "Value" ->
                               Gathered(in, "Object.Gather", "failed to get object metric")
                        [] spec.Target.Type = "AverageValue" ->
                               Gathered(in, "Object.GatherPerPod", "failed to get object metric")
                        [] OTHER ->
                               Refused("invalid object metric source: must be either value or average value")
          [] spec.Type = "Pods" ->
                 IF in.selector = "invalid"
                 THEN Refused("failed to get pods metric")
                 ELSE IF spec.Target.Type # "AverageValue"
                 THEN Refused("invalid pods metric source: must be average value")
                 ELSE Gathered(in, "Pods.Gather", "failed to get pods metric")
          [] spec.Type = "Resource" ->
                 CASE spec.Target.Type = "AverageValue" ->
                          Gathered(in, "Resource.GatherRaw", "failed to get resource metric")
                   [] spec.Target.Type = "Utilization" ->
                          Gathered(in, "Resource.Gather", "failed to get resource metric")
                   [] OTHER ->
                          Refused("invalid resource metric source: must be either average value or average utilization")
          [] spec.Type = "External" ->
                 CASE spec.Target.Type = "Value" ->
                          Gathered(in, "External.Gather", "failed to get external metric")
                   [] spec.Target.Type = "AverageValue" ->
                          Gathered(in, "External.GatherPerPod", "failed to get external metric")
                   [] OTHER ->
                          Refused("invalid external metric source: must be either value or average value")
          [] OTHER -> Refused("unknown metric source type")

\* the body of the loop of GatherWithOptions after GatherSingleMetricWithOptions
\* returned res for specs[i], with acc = [combinedMetrics, gatherErrors, attempted]
GatherAccumulate(i, acc, res) ==
    IF res.err # "nil"
    THEN [acc EXCEPT !.gatherErrors = Append(@, res.err), !.attempted = Append(@, i)]
    ELSE [acc EXCEPT !.combinedMetrics = @ \o res.metric, !.attempted = Append(@, i)]

\* for _, spec := range specs { ... }: the iterations from i on
RECURSIVE GatherLoop(_, _, _)
GatherLoop(specs, i, acc) ==
    IF i > Len(specs)
    THEN acc
    ELSE GatherLoop(specs, i + 1,
                    GatherAccumulate(i, acc, GatherSingleMetricWithOptions(specs[i])))

\* the mutant of GatherResult that drops the gathered metrics on any failure
GatherResultAllOrNothing(acc, numSpecs) ==
    IF Len(acc.gatherErrors) > 0
    THEN [metrics |-> <<>>, err |-> "GathererMultiMetricError",
          Partial |-> Len(acc.gatherErrors) < numSpecs, Errors |-> acc.gatherErrors,
          attempted |-> acc.attempted]
    ELSE [metrics |-> acc.combinedMetrics, err |-> "nil", Partial |-> FALSE,
          Errors |-> <<>>, attempted |-> acc.attempted]

\* what GatherWithOptions returns after the loop; the nil slice of a total
\* failure is <<>>
GatherResult(acc, numSpecs) ==
    IF Len(acc.gatherErrors) > 0
    THEN LET partial == Len(acc.gatherErrors) < numSpecs
         IN  IF partial
             THEN [metrics |-> acc.combinedMetrics, err |-> "GathererMultiMetricError",
                   Partial |-> partial, Errors |-> acc.gatherErrors,
                   attempted |-> acc.attempted]
             ELSE [metrics |-> <<>>, err |-> "GathererMultiMetricError",
                   Partial |-> partial, Errors |-> acc.gatherErrors,
                   attempted |-> acc.attempted]
    ELSE [metrics |-> acc.combinedMetrics, err |-> "nil", Partial |-> FALSE,
          Errors |-> <<>>, attempted |-> acc.attempted]

GatherWithOptions(specs) ==
    GatherResult(GatherLoop(specs, 1, [combinedMetrics |-> <<>>, gatherErrors |-> <<>>,
                                       attempted |-> <<>>]),
                 Len(specs))

\* Gather passes the periods of the resource gatherer, which the switch ignores
Gather(specs) == GatherWithOptions(specs)

\* specs of every type with the target types the switch tells apart, with
\* selectors that do not convert and collaborators that fail
GatherInputs ==
    {GatherInput("Object", "Value", "valid", "ok"),
     GatherInput("Object", "Value", "invalid", "ok"),
     GatherInput("Object", "AverageValue", "valid", "error"),
     GatherInput("Object", "Utilization", "valid", "ok"),
     GatherInput("Pods", "AverageValue", "valid", "ok"),
     GatherInput("Pods", "AverageValue", "valid", "error"),
     GatherInput("Pods", "Value", "valid", "ok"),
     GatherInput("Resource", "Utilization", "valid", "ok"),
     GatherInput("Resource", "AverageValue", "valid", "ok"),
     GatherInput("Resource", "Value", "valid", "ok"),
     GatherInput("External", "Value", "valid", "ok"),
     GatherInput("External", "AverageValue", "valid", "error"),
     GatherInput("ContainerResource", "Utilization", "valid", "ok")}

InitGather ==
    /\ evaluator = NewEvaluator(Tol(0))
    /\ gathered = <<>>
    /\ call = NoCall

\* the call returns res: the caller holds the metrics it returned
GatherReturn(op, specs, res) ==
    /\ gathered' = res.metrics
    /\ call' = [NoCall EXCEPT !.op = op, !.before = specs, !.err = res.err,
                              !.Partial = res.Partial, !.Errors = res.Errors,
                              !.evaluated = res.attempted]
    /\ UNCHANGED evaluator

\* a first call with any specs, or the last call again
SpecsToGather(op) ==
    IF call.op = "none" THEN ListsUpTo(GatherInputs, MaxMetrics)
    ELSE IF call.op = op THEN {call.before}
    ELSE {}

CallGather ==
    \E specs \in SpecsToGather("Gather") :
        /\ Len(specs) <= MaxMetrics
        /\ GatherReturn("Gather", specs, Gather(specs))

CallGatherWithOptions ==
    \E specs \in SpecsToGather("GatherWithOptions") :
        /\ Len(specs) <= MaxMetrics
        /\ GatherReturn("GatherWithOptions", specs, GatherWithOptions(specs))

NextGather == CallGather \/ CallGatherWithOptions

SpecGather == InitGather /\ [][NextGather]_vars

(***************************************************************************)
(* The resource evaluator on the pods of its tests: two ready pods and up  *)
(* to two missing ones, each with a request of 10m, milli-values as the    *)
(* tests and the documented scenarios use them, and a tolerance of 0.1.    *)
(***************************************************************************)

ScenarioReplicas == 4

ReadyPods == {"pod-1", "pod-2"}

MissingPods == {"missing-1", "missing-2"}

ScenarioTolerances == {Tol(0), [n |-> 1, d |-> 10]}

ScenarioMetrics ==
    {[Type |-> "Resource", Target |-> UtilizationTarget(t),
      PodMetricsInfo |-> u, Requests |-> [p \in ReadyPods \cup MissingPods |-> 10],
      ReadyPodCount |-> Cardinality(ReadyPods), MissingPods |-> missing,
      IgnoredPods |-> {}, Current |-> NoCurrent] :
        u \in [ReadyPods -> {5, 10, 20, 200}], missing \in SUBSET MissingPods,
        t \in {50, 100}}

InitScenario ==
    /\ evaluator \in {NewEvaluator(t) : t \in ConstructedTolerances}
    /\ gathered \in {<<m>> : m \in ScenarioMetrics}
    /\ call = NoCall

\* a direct call of the resource evaluator
CallResourceEvaluate ==
    \E currentReplicas \in 0..ScenarioReplicas, tolerance \in ScenarioTolerances :
        /\ FirstOrRepeated("ResourceEvaluate", 1, currentReplicas, tolerance, One, 0)
        /\ LET res == ResourceEvaluate(evaluator.Resource, currentReplicas, gathered[1],
                                       tolerance)
           IN  /\ gathered' = <<res.metric>>
               /\ call' = SingleCall("ResourceEvaluate", 1, currentReplicas, tolerance, res)
        /\ UNCHANGED evaluator

NextScenario == CallResourceEvaluate

SpecScenario == InitScenario /\ [][NextScenario]_vars

(***************************************************************************)
(* GetResourceUtilizationRatio on its own: any pods may have a metric, any *)
(* pods a request, and a request may be zero.                              *)
(***************************************************************************)

PartialMaps(values) == UNION {[S -> values] : S \in SUBSET PodNames}

UtilizationInputs ==
    {[Type |-> "Resource", Target |-> UtilizationTarget(t), PodMetricsInfo |-> metrics,
      Requests |-> requests, ReadyPodCount |-> 0, MissingPods |-> {}, IgnoredPods |-> {},
      Current |-> NoCurrent] :
        metrics \in PartialMaps(0..MaxValue), requests \in PartialMaps(0..MaxValue),
        t \in {50, 100}}

InitUtilization ==
    /\ evaluator = NewEvaluator(Tol(0))
    /\ gathered \in {<<m>> : m \in UtilizationInputs}
    /\ call = NoCall

\* a direct call; the call record also holds the two other results
CallGetResourceUtilizationRatio ==
    /\ call.op = "none"
    /\ LET m == gathered[1]
           res == GetResourceUtilizationRatio(m.PodMetricsInfo, m.Requests,
                                              Deref(m.Target.AverageUtilization))
       IN  call' = [currentUtilization |-> res.currentUtilization,
                    rawAverageValue |-> res.rawAverageValue]
                   @@ [NoCall EXCEPT !.op = "GetResourceUtilizationRatio", !.index = 1,
                                     !.before = gathered, !.err = res.err,
                                     !.usageRatio = res.utilizationRatio]
    /\ UNCHANGED <<evaluator, gathered>>

NextUtilization == CallGetResourceUtilizationRatio

SpecUtilization == InitUtilization /\ [][NextUtilization]_vars

(***************************************************************************)
(* Multi-metric evaluation: the outcome of each metric of the last call,   *)
(* evaluated on its own on the metric as it was before the call.           *)
(***************************************************************************)
IsMultiCall == call.op \in {"Evaluate", "EvaluateWithOptions"} /\ ~call.panicked

Outcome(i) ==
    EvaluateSingleMetricWithOptions(evaluator, call.before[i], call.currentReplicas,
                                    call.tolerance)

Succeeded == {i \in 1..Len(call.before) : Outcome(i).err = "nil"}

Failed == {i \in 1..Len(call.before) : Outcome(i).err # "nil"}

\* the count is the maximum of the successful proposals
IsMaxOfSucceeded(count) ==
    /\ \A i \in Succeeded : Outcome(i).count <= count
    /\ \E i \in Succeeded : Outcome(i).count = count

RECURSIVE FailedErrorsFrom(_)
FailedErrorsFrom(i) ==
    IF i > Len(call.before) THEN <<>>
    ELSE IF Outcome(i).err # "nil" THEN <<Outcome(i).err>> \o FailedErrorsFrom(i + 1)
    ELSE FailedErrorsFrom(i + 1)

\* the errors of the failed metrics, in input order
FailedErrors == FailedErrorsFrom(1)

\* C1: whenever at least one metric of the list evaluates successfully, the
\* returned count is the maximum of the successful proposals, wherever the
\* successes and the failures stand in the list.
C1_LargestSuccessfulProposalWins ==
    (IsMultiCall /\ Succeeded # {}) => IsMaxOfSucceeded(call.count)

\* C2: when some but not all metrics fail, the call returns the reduced count of
\* the successful metrics with an EvaluatorMultiMetricError whose Partial is true
\* and whose Errors are exactly the errors of the failed metrics.
C2_PartialFailure ==
    (IsMultiCall /\ Succeeded # {} /\ Failed # {}) =>
        /\ IsMaxOfSucceeded(call.count)
        /\ call.err = "EvaluatorMultiMetricError"
        /\ call.Partial = TRUE
        /\ call.Errors = FailedErrors

\* C3: when every metric of a non-empty list fails, the call returns 0 and an
\* EvaluatorMultiMetricError with Partial = false that carries all the errors.
C3_TotalFailure ==
    (IsMultiCall /\ Len(call.before) > 0 /\ Succeeded = {}) =>
        /\ call.count = 0
        /\ call.err = "EvaluatorMultiMetricError"
        /\ call.Partial = FALSE
        /\ call.Errors = [i \in 1..Len(call.before) |-> Outcome(i).err]

\* a total failure of two metrics with different errors
C3_Witness ==
    /\ IsMultiCall
    /\ Len(call.before) = 2
    /\ Succeeded = {}
    /\ Outcome(1).err # Outcome(2).err
    /\ call.Partial = FALSE

\* C4: every metric of the list is evaluated exactly once, in order, whatever
\* fails; the error is nil exactly when no metric failed (the empty list yields
\* 0 and nil); otherwise Errors holds one error per failed metric in input order.
C4_NoShortCircuit ==
    IsMultiCall =>
        /\ call.evaluated = [i \in 1..Len(call.before) |-> i]
        /\ (call.err = "nil") <=> (Failed = {})
        /\ (Len(call.before) = 0) => (call.count = 0 /\ call.err = "nil")
        /\ (call.err # "nil") =>
              /\ call.Errors = FailedErrors
              /\ Len(call.Errors) = Cardinality(Failed)
              /\ call.Errors[1] = Outcome(CHOOSE i \in Failed : \A j \in Failed : i <= j).err

\* a failure, then a success, then a failure with another error: all three evaluated
C4_Witness ==
    /\ IsMultiCall
    /\ Len(call.before) = 3
    /\ Failed = {1, 3}
    /\ Outcome(1).err # Outcome(3).err
    /\ call.evaluated = <<1, 2, 3>>
    /\ Len(call.Errors) = 2

(***************************************************************************)
(* The replica calculator, called directly.  The claims state the band and *)
(* the rounding in integer arithmetic on the ratio n/d (d > 0).            *)
(***************************************************************************)

\* |1 - n/d| <= tolerance
InBand(ratio, tolerance) ==
    /\ (ratio.d - ratio.n) * tolerance.d <= tolerance.n * ratio.d
    /\ (ratio.n - ratio.d) * tolerance.d <= tolerance.n * ratio.d

\* c = ceil(n/d * k): the least integer c with c * d >= n * k
IsCeilOfProduct(c, ratio, k) ==
    /\ c * ratio.d >= ratio.n * k
    /\ (c - 1) * ratio.d < ratio.n * k

IsRatioCall == call.op = "GetUsageRatioReplicaCount"

\* C5: for currentReplicas > 0, GetUsageRatioReplicaCount returns currentReplicas
\* when |1.0 - usageRatio| <= tolerance, whatever readyPodCount is, and
\* ceil(usageRatio * readyPodCount) otherwise.
C5_UsageRatioDeadBand ==
    (IsRatioCall /\ call.currentReplicas > 0) =>
        IF InBand(call.usageRatio, call.tolerance)
        THEN call.count = call.currentReplicas
        ELSE IsCeilOfProduct(call.count, call.usageRatio, call.readyPodCount)

\* a ratio on the edge of the band, where scaling by the ready pods would differ
C5_Witness ==
    /\ IsRatioCall
    /\ call.currentReplicas > 0
    /\ call.tolerance.n > 0
    /\ AbsOneMinus(call.usageRatio) = [n |-> call.tolerance.n, d |-> call.tolerance.d]
    /\ ~IsCeilOfProduct(call.currentReplicas, call.usageRatio, call.readyPodCount)
    /\ call.count = call.currentReplicas

\* C6: with currentReplicas = 0, GetUsageRatioReplicaCount returns
\* ceil(usageRatio), whatever readyPodCount and the tolerance are.
C6_ScaleFromZero ==
    (IsRatioCall /\ call.currentReplicas = 0) =>
        IsCeilOfProduct(call.count, call.usageRatio, 1)

\* a ratio inside the band, other than 1.0, with ready pods: the result is
\* neither currentReplicas nor the product with the ready pods
C6_Witness ==
    /\ IsRatioCall
    /\ call.currentReplicas = 0
    /\ InBand(call.usageRatio, call.tolerance)
    /\ call.usageRatio.n > call.usageRatio.d
    /\ call.readyPodCount > 1
    /\ call.count = 2
    /\ ~IsCeilOfProduct(call.count, call.usageRatio, call.readyPodCount)

IsPlainCall == call.op = "GetPlainMetricReplicaCount" /\ ~call.panicked

\* (sum of the metric values div number of metrics) / targetValue, the division
\* of the sum truncating toward zero
AverageRatio(metrics, targetValue) ==
    LET total == SumOver(metrics, DOMAIN metrics)
        count == Cardinality(DOMAIN metrics)
        quotient == CHOOSE q \in -Abs(total)..Abs(total) :
                        /\ Abs(q) * count <= Abs(total)
                        /\ (Abs(q) + 1) * count > Abs(total)
                        /\ (q >= 0) = (total >= 0) \/ q = 0
    IN  [n |-> quotient, d |-> targetValue]

\* C7: with no missing and no ignored pods, GetPlainMetricReplicaCount returns
\* currentReplicas when |1.0 - usageRatio| <= tolerance and
\* ceil(usageRatio * readyPodCount) otherwise, usageRatio being
\* (sum of the metric values div number of metrics) / targetValue.
C7_PlainFastPath ==
    (IsPlainCall /\ call.before[1].MissingPods = {} /\ call.before[1].IgnoredPods = {}) =>
        LET usageRatio == AverageRatio(call.before[1].PodMetricsInfo,
                                       Deref(call.before[1].Target.AverageValue))
        IN  IF InBand(usageRatio, call.tolerance)
            THEN call.count = call.currentReplicas
            ELSE IsCeilOfProduct(call.count, usageRatio, call.readyPodCount)

\* a fast-path call beyond the tolerance whose average is truncated and whose
\* ready pods are fewer than its metrics
C7_Witness ==
    /\ IsPlainCall
    /\ call.before[1].MissingPods = {} /\ call.before[1].IgnoredPods = {}
    /\ LET m == call.before[1].PodMetricsInfo
       IN  /\ SumOver(m, DOMAIN m) = 3
           /\ Cardinality(DOMAIN m) = 2
           /\ call.readyPodCount = 1
    /\ Deref(call.before[1].Target.AverageValue) = 2
    /\ call.currentReplicas = 3
    /\ call.count = 1

(***************************************************************************)
(* Single-metric evaluation of Pods and Resource metrics.                  *)
(***************************************************************************)

IsSingleCall ==
    /\ call.op \in {"EvaluateSingleMetric", "EvaluateSingleMetricWithOptions"}
    /\ ~call.panicked
    /\ call.err = "nil"

\* the metric the call was given, and the same metric as the call left it
MetricBefore == call.before[call.index]

MetricAfter == gathered[call.index]

\* evaluated by GetPlainMetricReplicaCount
IsPlainMetric(m) ==
    \/ m.Type = "Pods"
    \/ m.Type = "Resource" /\ IsSet(m.Target.AverageValue)

\* evaluated by the average-utilization branch of the resource evaluator
IsUtilizationMetric(m) ==
    /\ m.Type = "Resource"
    /\ ~IsSet(m.Target.AverageValue)
    /\ IsSet(m.Target.AverageUtilization)

\* the usage ratio of the pod metrics of m, as the evaluator of m computes it
PodsUsageRatio(m) ==
    IF IsPlainMetric(m)
    THEN GetMetricUtilizationRatio(m.PodMetricsInfo,
                                   Deref(m.Target.AverageValue)).utilizationRatio
    ELSE GetResourceUtilizationRatio(m.PodMetricsInfo, m.Requests,
                                     Deref(m.Target.AverageUtilization)).utilizationRatio

Below(ratio) == ratio.n < ratio.d

Above(ratio) == ratio.n > ratio.d

OppositeSides(ratio, newRatio) ==
    \/ Below(ratio) /\ Above(newRatio)
    \/ Above(ratio) /\ Below(newRatio)

\* missing pods, or ignored pods with a usage ratio above 1.0
InSlowPath(m) ==
    \/ m.MissingPods # {}
    \/ m.IgnoredPods # {} /\ Above(PodsUsageRatio(m))

\* C8: in the slow path of GetPlainMetricReplicaCount and of the resource
\* average-utilization evaluation, when the initial usage ratio and the ratio
\* recomputed after synthesizing the missing and ignored pods' values lie on
\* opposite sides of 1.0, the call returns currentReplicas.
C8_SignFlipGuard ==
    (/\ IsSingleCall
     /\ IsPlainMetric(MetricBefore) \/ IsUtilizationMetric(MetricBefore)
     /\ InSlowPath(MetricBefore)
     /\ OppositeSides(PodsUsageRatio(MetricBefore), PodsUsageRatio(MetricAfter)))
        => call.count = call.currentReplicas

\* a scale-down whose missing pods, counted at their full request, bring the ratio
\* above 1.0 and beyond the tolerance, where the recomputed ratio would scale up
C8_Witness ==
    /\ IsSingleCall
    /\ IsUtilizationMetric(MetricBefore)
    /\ MetricBefore.MissingPods # {}
    /\ Below(PodsUsageRatio(MetricBefore))
    /\ Above(PodsUsageRatio(MetricAfter))
    /\ ~InBand(PodsUsageRatio(MetricAfter), call.tolerance)
    /\ ~IsCeilOfProduct(call.currentReplicas, PodsUsageRatio(MetricAfter),
                        Cardinality(DOMAIN MetricAfter.PodMetricsInfo))
    /\ call.count = call.currentReplicas

\* the metric m with the value of pod p raised to v
Bumped(m, p, v) == [m EXCEPT !.PodMetricsInfo[p] = v]

\* no greater value of any one pod's metric yields a smaller count than the
\* call returned, all the other arguments of the call being the same
NoRaiseLowersCount(m) ==
    \A p \in DOMAIN m.PodMetricsInfo :
        \A v \in (m.PodMetricsInfo[p] + 1)..(MaxValue + 1) :
            LET res == EvaluateSingleMetricWithOptions(evaluator, Bumped(m, p, v),
                           call.currentReplicas, call.tolerance)
            IN  (~res.panicked /\ res.err = "nil") => res.count >= call.count

\* some greater value of one pod's metric yields a greater count
SomeRaiseRaisesCount(m) ==
    \E p \in DOMAIN m.PodMetricsInfo :
        \E v \in (m.PodMetricsInfo[p] + 1)..(MaxValue + 1) :
            LET res == EvaluateSingleMetricWithOptions(evaluator, Bumped(m, p, v),
                           call.currentReplicas, call.tolerance)
            IN  ~res.panicked /\ res.err = "nil" /\ res.count > call.count

\* C9 as stated: for GetPlainMetricReplicaCount and the resource
\* average-utilization evaluation, with everything else held fixed, increasing
\* the metric value of any one pod never decreases the returned count.
C9_Monotonicity ==
    (/\ IsSingleCall
     /\ IsPlainMetric(MetricBefore) \/ IsUtilizationMetric(MetricBefore))
        => NoRaiseLowersCount(MetricBefore)

\* C9 as amended: with no missing and no ignored pods and readyPodCount equal to
\* currentReplicas, increasing the metric value of any one pod never decreases
\* the returned count.
C9_MonotonicityOnFastPath ==
    (/\ IsSingleCall
     /\ IsPlainMetric(MetricBefore) \/ IsUtilizationMetric(MetricBefore)
     /\ MetricBefore.MissingPods = {}
     /\ MetricBefore.IgnoredPods = {}
     /\ MetricBefore.ReadyPodCount = call.currentReplicas)
        => NoRaiseLowersCount(MetricBefore)

\* a call below the band of a positive tolerance that scaled down, where a
\* greater value of one pod keeps or raises the replicas
C9_Witness ==
    /\ IsSingleCall
    /\ IsUtilizationMetric(MetricBefore)
    /\ MetricBefore.MissingPods = {}
    /\ MetricBefore.IgnoredPods = {}
    /\ MetricBefore.ReadyPodCount = call.currentReplicas
    /\ call.tolerance.n > 0
    /\ call.count < call.currentReplicas
    /\ SomeRaiseRaisesCount(MetricBefore)

\* the usage ratio of any metric m as its evaluator computes it
MetricUsageRatio(m, currentReplicas) ==
    IF IsPlainMetric(m) \/ IsUtilizationMetric(m)
    THEN PodsUsageRatio(m)
    ELSE IF \/ m.Type = "Object" /\ m.Target.Type = "AverageValue"
            \/ m.Type = "External" /\ IsSet(m.Target.AverageValue)
    THEN [n |-> Deref(m.Current.AverageValue),
          d |-> Deref(m.Target.AverageValue) * currentReplicas]
    ELSE [n |-> Deref(m.Current.Value), d |-> Deref(m.Target.Value)]

\* the tolerance NewEvaluator was given: it is the tolerance of the calculator
ConstructedTolerance == evaluator.Pods.Calculater.Tolerance

\* C10: an Evaluator built by NewEvaluator(t) applies t in EvaluateSingleMetric
\* for every metric type: with no missing or ignored pods and
\* currentReplicas > 0, a usage ratio r with |1.0 - r| <= t yields currentReplicas.
C10_ConstructedToleranceApplies ==
    (/\ IsSingleCall
     /\ call.op = "EvaluateSingleMetric"
     /\ call.currentReplicas > 0
     /\ MetricBefore.MissingPods = {}
     /\ MetricBefore.IgnoredPods = {}
     /\ InBand(MetricUsageRatio(MetricBefore, call.currentReplicas), ConstructedTolerance))
        => call.count = call.currentReplicas

(***************************************************************************)
(* The tolerance of a call, repeated calls, and the order of the metrics.  *)
(***************************************************************************)

\* C11: the tolerance given to EvaluateSingleMetricWithOptions decides the
\* dead band for every metric type and target kind: an Evaluator constructed
\* with any other tolerance returns the same count for the same metric,
\* currentReplicas and call-time tolerance.
C11_CallToleranceDecides ==
    (IsSingleCall /\ call.op = "EvaluateSingleMetricWithOptions") =>
        \A t \in ConstructedTolerances :
            LET other == EvaluateSingleMetricWithOptions(NewEvaluator(t), MetricBefore,
                             call.currentReplicas, call.tolerance)
            IN  ~other.panicked /\ other.err = "nil" /\ other.count = call.count

\* C12: evaluating the same gathered metric again with the same currentReplicas
\* and tolerance returns the same count and error as the call before.
C12_RepeatedCallSameResult ==
    [][(/\ call.op \in {"EvaluateSingleMetric", "EvaluateSingleMetricWithOptions"}
        /\ call'.op = call.op
        /\ ~call.panicked /\ ~call'.panicked)
           => (call'.count = call.count /\ call'.err = call.err)]_vars

\* the permutations of 1..n
IndexPermutations(n) == {f \in [1..n -> 1..n] : \A i, j \in 1..n : f[i] = f[j] => i = j}

\* C13: the count, the nil or non-nil error and the Partial flag that
\* EvaluateWithOptions returns are the same for every permutation of the list.
C13_OrderInsensitive ==
    IsMultiCall =>
        \A f \in IndexPermutations(Len(call.before)) :
            LET permuted == [i \in 1..Len(call.before) |-> call.before[f[i]]]
                res == EvaluateWithOptions(evaluator, permuted, call.currentReplicas,
                                           call.tolerance)
            IN  /\ res.count = call.count
                /\ (res.err = "nil") <=> (call.err = "nil")
                /\ res.Partial = call.Partial

\* C14: with currentReplicas >= 0, no call returns a negative replica count.
C14_NeverNegative ==
    (call.op # "none" /\ ~call.panicked /\ call.currentReplicas >= 0) => call.count >= 0

(***************************************************************************)
(* Dispatch on the metric type, and specs without a target.                *)
(***************************************************************************)

IsSingleOp == call.op \in {"EvaluateSingleMetric", "EvaluateSingleMetricWithOptions"}

KnownTypes == {"Object", "Pods", "Resource", "External"}

\* the call returned exactly what the evaluation res returned (or panicked with
\* it) and left the metric as res left it
ReturnedUnchanged(res) ==
    /\ call.panicked = res.panicked
    /\ call.count = res.count
    /\ call.err = res.err
    /\ MetricAfter = res.metric

\* C15: EvaluateSingleMetricWithOptions hands the metric to the evaluator of its
\* Spec.Type and returns that evaluator's count and error unchanged; any other
\* type returns 0 and an 'unknown metric source type' error and no evaluator
\* touches the metric; in a multi-metric evaluation that error fails only the
\* metric of the unknown type.
C15_DispatchOnType ==
    /\ IsSingleOp =>
          /\ MetricBefore.Type = "Object" =>
                ReturnedUnchanged(ObjectEvaluate(evaluator.Object, call.currentReplicas,
                                                 MetricBefore, call.tolerance))
          /\ MetricBefore.Type = "Pods" =>
                ReturnedUnchanged(PodsEvaluate(evaluator.Pods, call.currentReplicas,
                                               MetricBefore))
          /\ MetricBefore.Type = "Resource" =>
                ReturnedUnchanged(ResourceEvaluate(evaluator.Resource, call.currentReplicas,
                                                   MetricBefore, call.tolerance))
          /\ MetricBefore.Type = "External" =>
                ReturnedUnchanged(ExternalEvaluate(evaluator.External, call.currentReplicas,
                                                   MetricBefore, call.tolerance))
          /\ MetricBefore.Type \notin KnownTypes =>
                /\ ~call.panicked
                /\ call.count = 0
                /\ call.err = "unknown metric source type"
                /\ MetricAfter = MetricBefore
    /\ (IsMultiCall /\ \E i \in 1..Len(call.before) : call.before[i].Type \notin KnownTypes) =>
          /\ call.err = "EvaluatorMultiMetricError"
          /\ call.evaluated = [i \in 1..Len(call.before) |-> i]
          /\ \A i \in 1..Len(call.before) :
                /\ gathered[i] = Outcome(i).metric
                /\ call.before[i].Type \notin KnownTypes =>
                      Outcome(i).err = "unknown metric source type"
          /\ call.Errors = FailedErrors
          /\ call.Partial = (Succeeded # {})

\* a list that starts with a metric of an unknown type, followed by a resource
\* metric whose missing pod the evaluation filled in: one error, and partial
C15_Witness ==
    /\ IsMultiCall
    /\ Len(call.before) = 2
    /\ call.before[1].Type \notin KnownTypes
    /\ call.before[2].Type = "Resource"
    /\ gathered[2] # call.before[2]
    /\ call.Errors = <<"unknown metric source type">>
    /\ call.Partial = TRUE

\* C16: each of the four per-type evaluators returns count 0 and its own
\* invalid-metric-source error when the spec sets neither target kind it expects.
C16_InvalidMetricSource ==
    (/\ IsSingleOp
     /\ MetricBefore.Type \in KnownTypes
     /\ MetricBefore.Target = NoTarget)
        => /\ ~call.panicked
           /\ call.count = 0
           /\ call.err = CASE MetricBefore.Type = "Resource" ->
                                "invalid resource metric source: neither a utilization target nor a value target was set"
                           [] MetricBefore.Type = "Pods" ->
                                "invalid pods metric source: must be average value"
                           [] MetricBefore.Type = "Object" ->
                                "invalid object metric source: neither a value target nor an average value target was set"
                           [] MetricBefore.Type = "External" ->
                                "invalid external metric source: neither a value target nor an average value target was set"

(***************************************************************************)
(* Empty metric mappings, and object metrics.                              *)
(***************************************************************************)

\* the metric pods.Gather returns for an empty pod list: no pod metrics, no
\* ready, missing or ignored pod
IsEmptyPodsMetric(m) ==
    /\ m.Type = "Pods"
    /\ IsSet(m.Target.AverageValue)
    /\ m.PodMetricsInfo = EmptyMap
    /\ m.ReadyPodCount = 0
    /\ m.MissingPods = {}
    /\ m.IgnoredPods = {}

\* C19: GetMetricUtilizationRatio on an empty metrics mapping fails with an
\* error instead of dividing by zero, also when the pods evaluator reaches it
\* with the metric that pods Gather returns for an empty pod list.
C19_EmptyMetricsFailWithError ==
    /\ \A t \in 1..MaxValue : ~GetMetricUtilizationRatio(EmptyMap, t).panicked
    /\ (IsSingleOp /\ IsEmptyPodsMetric(MetricBefore)) =>
          ~call.panicked /\ call.err # "nil"

IsObjectCall(targetType) ==
    /\ IsSingleOp
    /\ ~call.panicked
    /\ call.err = "nil"
    /\ MetricBefore.Type = "Object"
    /\ MetricBefore.Target.Type = targetType

\* the count the per-pod rule gives: currentReplicas when
\* currentValue / (targetValue * currentReplicas) is within the tolerance of 1.0,
\* ceil(currentValue / targetValue) otherwise
IsPerPodCount(count, currentValue, targetValue) ==
    IF /\ call.currentReplicas > 0
       /\ InBand([n |-> currentValue, d |-> targetValue * call.currentReplicas],
                 call.tolerance)
    THEN count = call.currentReplicas
    ELSE IsCeilOfProduct(count, [n |-> currentValue, d |-> targetValue], 1)

\* C20 as stated: an object metric with a Value target gets
\* usageRatio = currentValue / (targetValue * currentReplicas), keeps
\* currentReplicas within the tolerance and returns ceil(currentValue / targetValue)
\* otherwise.
C20_ObjectValueTarget ==
    IsObjectCall("Value") =>
        IsPerPodCount(call.count, Deref(MetricBefore.Current.Value),
                      Deref(MetricBefore.Target.Value))

\* C20 amended: that rule is the one of an object metric with an AverageValue
\* target, with the tolerance the evaluation was called with.
C20_ObjectAverageValueTarget ==
    IsObjectCall("AverageValue") =>
        IsPerPodCount(call.count, Deref(MetricBefore.Current.AverageValue),
                      Deref(MetricBefore.Target.AverageValue))

\* 3 against a per-pod target of 2 on one replica: ratio 1.5 is within 0.5 and
\* the count stays 1, where ceil(3 / 2) = 2
C20_Witness ==
    /\ IsObjectCall("AverageValue")
    /\ Deref(MetricBefore.Current.AverageValue) = 3
    /\ Deref(MetricBefore.Target.AverageValue) = 2
    /\ call.currentReplicas = 1
    /\ call.tolerance = Tol(2)
    /\ call.count = 1

(***************************************************************************)
(* Gathering: the outcome of each spec of the last call, gathered on its   *)
(* own.                                                                    *)
(***************************************************************************)

IsGatherCall == call.op \in {"Gather", "GatherWithOptions"}

GatherOutcome(i) == GatherSingleMetricWithOptions(call.before[i])

GatherFailed == {i \in 1..Len(call.before) : GatherOutcome(i).err # "nil"}

\* the metrics of the specs from i on that did not fail, in spec order
RECURSIVE GatheredFrom(_)
GatheredFrom(i) ==
    IF i > Len(call.before) THEN <<>>
    ELSE (IF i \in GatherFailed THEN <<>> ELSE GatherOutcome(i).metric)
         \o GatheredFrom(i + 1)

\* the errors of the specs from i on that failed, in spec order
RECURSIVE GatherErrorsFrom(_)
GatherErrorsFrom(i) ==
    IF i > Len(call.before) THEN <<>>
    ELSE (IF i \in GatherFailed THEN <<GatherOutcome(i).err>> ELSE <<>>)
         \o GatherErrorsFrom(i + 1)

\* C17: GatherWithOptions attempts every spec; with no failure it returns all
\* gathered metrics in spec order and a nil error; when some but not all specs
\* fail it returns the gathered metrics in spec order and a
\* GathererMultiMetricError with Partial = true; when all fail it returns no
\* metrics and Partial = false; Errors holds one error per failed spec, in spec
\* order.
C17_GatherFailureContract ==
    IsGatherCall =>
        /\ call.evaluated = [i \in 1..Len(call.before) |-> i]
        /\ GatherFailed = {} =>
              /\ call.err = "nil"
              /\ gathered = GatheredFrom(1)
              /\ Len(gathered) = Len(call.before)
              /\ \A i \in 1..Len(gathered) : gathered[i].Spec = call.before[i].Spec
        /\ GatherFailed # {} =>
              /\ call.err = "GathererMultiMetricError"
              /\ call.Errors = GatherErrorsFrom(1)
              /\ Len(call.Errors) = Cardinality(GatherFailed)
              /\ call.Partial = (Cardinality(GatherFailed) < Len(call.before))
              /\ gathered = IF call.Partial THEN GatheredFrom(1) ELSE <<>>

\* three specs, the second of which fails: the first and the third metric come
\* back in that order with the one error
C17_Witness ==
    /\ IsGatherCall
    /\ Len(call.before) = 3
    /\ GatherFailed = {2}
    /\ call.before[1].Spec # call.before[3].Spec
    /\ Len(gathered) = 2
    /\ gathered[1].Spec = call.before[1].Spec
    /\ gathered[2].Spec = call.before[3].Spec
    /\ call.Partial = TRUE
    /\ Len(call.Errors) = 1

(***************************************************************************)
(* The documented scale-up scenario of the resource evaluator.             *)
(***************************************************************************)

\* a returned call of the resource evaluator on two ready pods that report
\* value each, with both missing pods, a target of 50% and a tolerance of 0.1
IsScaleUpScenario(value) ==
    /\ call.op = "ResourceEvaluate"
    /\ ~call.panicked
    /\ call.before[1].PodMetricsInfo = [p \in ReadyPods |-> value]
    /\ call.before[1].MissingPods = MissingPods
    /\ call.before[1].Target = UtilizationTarget(50)
    /\ call.tolerance = [n |-> 1, d |-> 10]

\* the missing pods were given 0, the ratio was taken over the four pods, and
\* the count is ceil(newRatio * 4) = 8
ScaledUpToEight(value) ==
    LET newUtilization == GoDiv((value + value + 0 + 0) * 100, 10 + 10 + 10 + 10)
    IN  /\ call.err = "nil"
        /\ gathered[1].PodMetricsInfo =
               [p \in ReadyPods \cup MissingPods |-> IF p \in ReadyPods THEN value ELSE 0]
        /\ IsCeilOfProduct(call.count, [n |-> newUtilization, d |-> 50], 4)
        /\ call.count = 8

\* C18 as stated: with the two ready pods at 200m each (requests of 10m for the
\* ready and the missing pods, target 50%, tolerance 0.1) the missing pods are
\* synthesized at 0, the ratio is recomputed over 4 pods, and the evaluator
\* returns ceil(newRatio * 4) = 8.
C18_ScaleUpScenario ==
    IsScaleUpScenario(200) => ScaledUpToEight(200)

\* C18 amended: the scenario that returns 8 has the ready pods at 20m each.
C18_ScaleUpScenarioAt20m ==
    IsScaleUpScenario(20) => ScaledUpToEight(20)

\* the scenario as the tests run it, on 4 current replicas
C18_Witness ==
    /\ IsScaleUpScenario(20)
    /\ call.currentReplicas = 4
    /\ call.count = 8
    /\ DOMAIN gathered[1].PodMetricsInfo = ReadyPods \cup MissingPods

(***************************************************************************)
(* Object and external metrics against their reference rules.              *)
(***************************************************************************)

\* the count of the per-pod rule for the ratio
\* currentValue / (targetPerPod * currentReplicas): a division by zero replicas
\* gives an infinite ratio, beyond every tolerance, or 0/0, which no comparison
\* holds of and which leaves the count at ceil(0) = 0 = currentReplicas
IsBandedPerPodCount(count, currentValue, targetPerPod, tolerance) ==
    LET inBand == /\ call.currentReplicas # 0
                  /\ InBand([n |-> currentValue, d |-> targetPerPod * call.currentReplicas],
                            tolerance)
    IN  /\ inBand => count = call.currentReplicas
        /\ ~inBand => IsCeilOfProduct(count, [n |-> currentValue, d |-> targetPerPod], 1)

\* C21: an object metric with an AverageValue target returns currentReplicas
\* when |1.0 - currentAverageValue / (targetAverageValue * currentReplicas)| is
\* within the tolerance and ceil(currentAverageValue / targetAverageValue)
\* otherwise, whatever the tolerance of the replica calculator and the ready-pod
\* count of the metric are.
C21_ObjectPerPodIgnoresCalculator ==
    IsObjectCall("AverageValue") =>
        /\ IsBandedPerPodCount(call.count, Deref(MetricBefore.Current.AverageValue),
                               Deref(MetricBefore.Target.AverageValue), call.tolerance)
        /\ \A t \in Tolerances, n \in 0..MaxReplicas :
              ObjectEvaluate(NewEvaluator(t).Object, call.currentReplicas,
                             [MetricBefore EXCEPT !.ReadyPodCount = n],
                             call.tolerance).count = call.count

\* a ratio of 1.5 that the calculator's tolerance of 0.5 would accept and that
\* the tolerance of the call, 0, does not: the count is ceil(3 / 2) = 2
C21_Witness ==
    /\ IsObjectCall("AverageValue")
    /\ ConstructedTolerance = Tol(2)
    /\ call.tolerance = Tol(0)
    /\ Deref(MetricBefore.Current.AverageValue) = 3
    /\ Deref(MetricBefore.Target.AverageValue) = 2
    /\ call.currentReplicas = 1
    /\ call.count = 2

IsExternalCall ==
    /\ IsSingleOp
    /\ ~call.panicked
    /\ call.err = "nil"
    /\ MetricBefore.Type = "External"

\* C22: an external metric with a Value target returns
\* GetUsageRatioReplicaCount(currentReplicas, currentValue / targetValue,
\* reported readyPodCount); with an AverageValue target it returns
\* currentReplicas when |1.0 - currentValue / (targetPerPod * currentReplicas)|
\* is within the tolerance and ceil(currentValue / targetPerPod) otherwise.
C22_ExternalReference ==
    IsExternalCall =>
        /\ IsSet(MetricBefore.Target.Value) =>
              call.count = GetUsageRatioReplicaCount(evaluator.External.Calculater,
                               call.currentReplicas,
                               [n |-> Deref(MetricBefore.Current.Value),
                                d |-> Deref(MetricBefore.Target.Value)],
                               MetricBefore.ReadyPodCount)
        /\ IsSet(MetricBefore.Target.AverageValue) =>
              IsBandedPerPodCount(call.count, Deref(MetricBefore.Current.AverageValue),
                                  Deref(MetricBefore.Target.AverageValue), call.tolerance)

\* a value of twice its target with three ready pods reported, on one replica
C22_Witness ==
    /\ IsExternalCall
    /\ IsSet(MetricBefore.Target.Value)
    /\ Deref(MetricBefore.Current.Value) = 2
    /\ Deref(MetricBefore.Target.Value) = 1
    /\ MetricBefore.ReadyPodCount = 3
    /\ call.currentReplicas = 1
    /\ call.count = 6

(***************************************************************************)
(* The slow path of GetPlainMetricReplicaCount: what it writes and what it *)
(* returns.                                                                *)
(***************************************************************************)

PlainBefore == call.before[1].PodMetricsInfo

PlainAfter == gathered[1].PodMetricsInfo

PlainTarget == Deref(call.before[1].Target.AverageValue)

PlainMissing == call.before[1].MissingPods

PlainIgnored == call.before[1].IgnoredPods

PlainRatio == AverageRatio(PlainBefore, PlainTarget)

PlainNewRatio == AverageRatio(PlainAfter, PlainTarget)

\* the ignored pods that are given a value: all of them on a scale-up
PlainRebalanced == IF Above(PlainRatio) THEN PlainIgnored ELSE {}

IsPlainSlowPath == PlainMissing # {} \/ PlainRebalanced # {}

\* C23: on the fast path GetPlainMetricReplicaCount leaves the metrics mapping
\* unchanged; on the slow path the mapping after the call is the mapping before
\* plus one entry per missing pod (the target if the initial usageRatio < 1.0, 0
\* if it is >= 1.0) plus, only when rebalancing, one entry of 0 per ignored pod;
\* the entries of the ready pods and the missingPods and ignoredPods sets are
\* not modified.
C23_EffectOnMetrics ==
    IsPlainCall =>
        /\ ~IsPlainSlowPath => PlainAfter = PlainBefore
        /\ DOMAIN PlainAfter = DOMAIN PlainBefore \cup PlainMissing \cup PlainRebalanced
        /\ \A p \in PlainMissing \ PlainRebalanced :
              PlainAfter[p] = IF Below(PlainRatio) THEN PlainTarget ELSE 0
        /\ \A p \in PlainRebalanced : PlainAfter[p] = 0
        /\ \A p \in DOMAIN PlainBefore \ (PlainMissing \cup PlainRebalanced) :
              PlainAfter[p] = PlainBefore[p]
        /\ gathered[1].MissingPods = PlainMissing
        /\ gathered[1].IgnoredPods = PlainIgnored

\* a scale-up with a missing pod and an ignored pod: both are written at 0
C23_Witness ==
    /\ IsPlainCall
    /\ Above(PlainRatio)
    /\ PlainMissing # {} /\ PlainIgnored # {}
    /\ PlainMissing \cap DOMAIN PlainBefore = {}
    /\ PlainIgnored \cap DOMAIN PlainBefore = {}
    /\ \A p \in PlainMissing \cup PlainIgnored : p \in DOMAIN PlainAfter /\ PlainAfter[p] = 0

\* C25: on the slow path, when the recomputed ratio is beyond the tolerance and
\* on the same side of 1.0 as the initial one, the result is
\* ceil(newUsageRatio * N), N being the number of entries of the mapping after
\* synthesis, whatever readyPodCount is.
C25_SlowPathMultiplier ==
    (/\ IsPlainCall
     /\ IsPlainSlowPath
     /\ ~InBand(PlainNewRatio, call.tolerance)
     /\ ~OppositeSides(PlainRatio, PlainNewRatio))
        => IsCeilOfProduct(call.count, PlainNewRatio, Cardinality(DOMAIN PlainAfter))

\* a slow-path result that the ready pods as multiplier would not give
C25_Witness ==
    /\ IsPlainCall
    /\ IsPlainSlowPath
    /\ ~InBand(PlainNewRatio, call.tolerance)
    /\ ~OppositeSides(PlainRatio, PlainNewRatio)
    /\ call.count # call.currentReplicas
    /\ ~IsCeilOfProduct(call.count, PlainNewRatio, call.readyPodCount)

\* C30: with a positive target and non-negative metric values the slow path of
\* GetPlainMetricReplicaCount never amplifies the signal: an initial
\* usageRatio < 1.0 gives newUsageRatio >= usageRatio, and an initial
\* usageRatio > 1.0 gives newUsageRatio <= usageRatio.
C30_SynthesisIsConservative ==
    (/\ IsPlainCall
     /\ IsPlainSlowPath
     /\ PlainTarget > 0
     /\ \A p \in DOMAIN PlainBefore : PlainBefore[p] >= 0)
        => /\ Below(PlainRatio) => PlainNewRatio.n >= PlainRatio.n
           /\ Above(PlainRatio) => PlainNewRatio.n <= PlainRatio.n

\* a scale-down whose missing pods, counted at the target, raise the ratio
C30_Witness ==
    /\ IsPlainCall
    /\ PlainMissing # {}
    /\ \A p \in DOMAIN PlainBefore : PlainBefore[p] >= 0
    /\ Below(PlainRatio)
    /\ PlainNewRatio.n > PlainRatio.n

(***************************************************************************)
(* Ignored pods.                                                           *)
(***************************************************************************)

\* C24: when the initial usageRatio is <= 1.0, GetPlainMetricReplicaCount and
\* the resource average-utilization evaluation return the same replica count
\* and leave the same metrics mapping for any two ignoredPods sets, all other
\* inputs being equal.
C24_IgnoredPodsOnlyOnScaleUp ==
    (/\ IsSingleCall
     /\ IsPlainMetric(MetricBefore) \/ IsUtilizationMetric(MetricBefore)
     /\ ~Above(PodsUsageRatio(MetricBefore)))
        => \A ignoredPods \in SUBSET PodNames :
               LET res == EvaluateSingleMetricWithOptions(evaluator,
                              [MetricBefore EXCEPT !.IgnoredPods = ignoredPods],
                              call.currentReplicas, call.tolerance)
               IN  /\ ~res.panicked /\ res.err = "nil"
                   /\ res.count = call.count
                   /\ res.metric.PodMetricsInfo = MetricAfter.PodMetricsInfo

\* a scale-down past a missing pod and an ignored pod
C24_Witness ==
    /\ IsSingleCall
    /\ IsUtilizationMetric(MetricBefore)
    /\ Below(PodsUsageRatio(MetricBefore))
    /\ MetricBefore.IgnoredPods # {}
    /\ MetricBefore.MissingPods # {}
    /\ MetricBefore.IgnoredPods \cap DOMAIN MetricAfter.PodMetricsInfo = {}
    /\ call.count # call.currentReplicas

(***************************************************************************)
(* The slow path of the resource average-utilization evaluation.           *)
(***************************************************************************)

IsUtilizationCall == IsSingleCall /\ IsUtilizationMetric(MetricBefore)

\* requests[pod], the zero value for a pod without a request
RequestOf(m, p) == IF p \in DOMAIN m.Requests THEN m.Requests[p] ELSE 0

\* C26: in resource average-utilization evaluation, whenever missingPods is
\* non-empty every missing pod has an entry in the metrics mapping after the
\* call: requests[pod] when the initial usageRatio < 1.0, and 0 when it is
\* >= 1.0 (scaling up or flat).
C26_MissingPodsAlwaysWritten ==
    (IsUtilizationCall /\ MetricBefore.MissingPods # {}) =>
        \A p \in MetricBefore.MissingPods :
            /\ p \in DOMAIN MetricAfter.PodMetricsInfo
            /\ MetricAfter.PodMetricsInfo[p] =
                   IF Below(PodsUsageRatio(MetricBefore)) THEN RequestOf(MetricBefore, p)
                   ELSE 0
\* the slow path returned from its last line: the recomputed ratio is beyond the
\* tolerance and on the same side of 1.0 as the initial one
UtilizationMultiplierUsed ==
    /\ IsUtilizationCall
    /\ InSlowPath(MetricBefore)
    /\ ~InBand(PodsUsageRatio(MetricAfter), call.tolerance)
    /\ ~OppositeSides(PodsUsageRatio(MetricBefore), PodsUsageRatio(MetricAfter))

\* the pods that factor into the recomputed ratio: those with a metric entry
\* and a request entry
FactoredPods == DOMAIN MetricAfter.PodMetricsInfo \cap DOMAIN MetricAfter.Requests

\* C28: in the slow path of the resource average-utilization evaluation the
\* multiplier len(metrics) of the result is the number of pods that factored
\* into the recomputed usage ratio, that is the pods of the metrics mapping
\* that have a request entry.
C28_MultiplierCountsFactoredPods ==
    UtilizationMultiplierUsed =>
        /\ Cardinality(DOMAIN MetricAfter.PodMetricsInfo) = Cardinality(FactoredPods)
        /\ IsCeilOfProduct(call.count, PodsUsageRatio(MetricAfter), Cardinality(FactoredPods))
\* the first usage-ratio computation succeeds: the requests of the pods that
\* have a metric do not sum to zero
FirstRatioSucceeds(m) ==
    SumOver(m.Requests, DOMAIN m.PodMetricsInfo \cap DOMAIN m.Requests) # 0

\* C29: in resource average-utilization evaluation with non-negative requests,
\* if the first usage-ratio computation succeeds the recomputation after the
\* synthesis never fails: the 'no metrics returned matched known pods' error is
\* only returned before any entry of the metrics mapping is modified.
C29_RecomputationNeverFails ==
    (/\ IsSingleOp
     /\ ~call.panicked
     /\ IsUtilizationMetric(MetricBefore)
     /\ \A p \in DOMAIN MetricBefore.Requests : MetricBefore.Requests[p] >= 0)
        => /\ FirstRatioSucceeds(MetricBefore) => call.err = "nil"
           /\ call.err # "nil" =>
                 /\ call.err = "no metrics returned matched known pods"
                 /\ call.count = 0
                 /\ MetricAfter = MetricBefore

\* a slow path that wrote an entry for a missing pod and recomputed the ratio
\* over more requests than before
C29_Witness ==
    /\ IsUtilizationCall
    /\ FirstRatioSucceeds(MetricBefore)
    /\ MetricBefore.MissingPods # {}
    /\ MetricBefore.MissingPods \cap DOMAIN MetricBefore.PodMetricsInfo = {}
    /\ MetricBefore.MissingPods \subseteq DOMAIN MetricAfter.PodMetricsInfo
    /\ SumOver(MetricAfter.Requests, FactoredPods)
           > SumOver(MetricBefore.Requests,
                     DOMAIN MetricBefore.PodMetricsInfo \cap DOMAIN MetricBefore.Requests)

(***************************************************************************)
(* GetResourceUtilizationRatio.                                            *)
(***************************************************************************)

IsUtilizationRatioCall == call.op = "GetResourceUtilizationRatio"

\* the pods present in both mappings, and the totals over them
MatchedPods == DOMAIN MetricBefore.PodMetricsInfo \cap DOMAIN MetricBefore.Requests

MatchedMetricsTotal == SumOver(MetricBefore.PodMetricsInfo, MatchedPods)

MatchedRequestsTotal == SumOver(MetricBefore.Requests, MatchedPods)

\* q = n div d for n >= 0 and d > 0
IsQuotient(q, n, d) == q * d <= n /\ n < (q + 1) * d

\* C27: GetResourceUtilizationRatio sums the metric values and the requests over
\* the pods present in both mappings only, fails with 'no metrics returned
\* matched known pods' exactly when that requests total is zero, and otherwise
\* returns currentUtilization = (metricsTotal * 100) div requestsTotal,
\* ratio = currentUtilization / targetUtilization and
\* rawAverage = metricsTotal div the number of matched pods.
C27_ResourceUtilizationRatio ==
    IsUtilizationRatioCall =>
        IF MatchedRequestsTotal = 0
        THEN call.err = "no metrics returned matched known pods"
        ELSE /\ call.err = "nil"
             /\ IsQuotient(call.currentUtilization, MatchedMetricsTotal * 100,
                           MatchedRequestsTotal)
             /\ call.usageRatio.n * Deref(MetricBefore.Target.AverageUtilization)
                    = call.currentUtilization * call.usageRatio.d
             /\ IsQuotient(call.rawAverageValue, MatchedMetricsTotal,
                           Cardinality(MatchedPods))

\* a metric of a pod without a request next to two matched pods, with both
\* divisions truncating
C27_Witness ==
    /\ IsUtilizationRatioCall
    /\ call.err = "nil"
    /\ DOMAIN MetricBefore.PodMetricsInfo \ DOMAIN MetricBefore.Requests # {}
    /\ \E p \in DOMAIN MetricBefore.PodMetricsInfo \ DOMAIN MetricBefore.Requests :
           MetricBefore.PodMetricsInfo[p] > 0
    /\ Cardinality(MatchedPods) = 2
    /\ call.currentUtilization * MatchedRequestsTotal < MatchedMetricsTotal * 100
    /\ call.rawAverageValue * 2 < MatchedMetricsTotal

====
